---- MODULE Spec2Model ----
(***************************************************************************)
(* State-machine model of the Online Restaurant application: the request   *)
(* handlers of app.py and the rules of utils.py acting on the relational   *)
(* tables of models.py.  Every table is a sequence of rows whose index is  *)
(* the autoincrement primary key; a handler is one atomic action (one      *)
(* request, one transaction).  Money is counted in whole currency units.   *)
(***************************************************************************)
EXTENDS Integers, Sequences, FiniteSets, TLC

(***************************************************************************)
(* Bounds of the model (sizes of the tables and of the inputs).            *)
(***************************************************************************)
MaxOrders == 3
MaxBids == 3
MaxComplaints == 2
MaxWarnings == 4
MaxQty == 2
MaxDeposits == 2

(***************************************************************************)
(* Accounts.  The users table holds seven registered accounts; the role of *)
(* each is the one given at registration (register() stores the role of    *)
(* the form; the manager account is created at start-up).                  *)
(***************************************************************************)
NoId == 0
Users == 1..7
UnknownUser == 8
Roles == {"Visitor", "Customer", "VIP", "Chef", "DeliveryPerson", "Manager"}
CustomerRoles == {"Customer", "VIP"}
RegisteredRole ==
    <<"Manager", "VIP", "Customer", "DeliveryPerson", "DeliveryPerson", "Chef",
      "Visitor">>

(***************************************************************************)
(* The menu table: two dishes with their prices.                           *)
(***************************************************************************)
Menu == {1, 2}
Price(m) == IF m = 1 THEN 10 ELSE 60
DepositAmounts == {0, 70}
EmptyCart == [m \in Menu |-> 0]

\* The statuses update_order_status writes; the decisions and notes a review
\* form can carry ("Other" stands for any string that is neither decision).
OrderStatuses == {"Pending", "Preparing", "Ready", "Out for Delivery", "Delivered"}
Decisions == {"Approved", "Rejected", "Other"}
Notes == {"seen"}

VARIABLES
    role,        \* users.role
    balance,     \* users.balance
    active,      \* users.is_active
    cart,        \* session['cart'] of each account's session: menu id -> quantity
    orders,      \* orders table
    items,       \* order_items table
    bids,        \* delivery_bids table
    complaints,  \* complaints table
    warnings,    \* warnings table
    blacklist,   \* blacklist table
    deposits,    \* number of deposits made (bounds the runs)
    ret,         \* outcome of the last request
    kb,          \* knowledge_base_entries table
    ratings,     \* ai_response_ratings table
    corpus,      \* content of the knowledge base file (NoFile: no such file)
    api_key,     \* whether Config.HUGGINGFACE_API_KEY is set
    reply,       \* the dict get_ai_response returned last
    posted,      \* number of requests.post calls of the last ai_chat request
    inflight     \* what each place_order request under way has read

\* The state of the AI customer service.
kbvars == <<kb, ratings, corpus, api_key, reply, posted>>

vars == <<role, balance, active, cart, orders, items, bids, complaints,
          warnings, blacklist, deposits, ret, kb, ratings, corpus, api_key,
          reply, posted, inflight>>

Response(op, u, target, arg, result) ==
    [op |-> op, user |-> u, target |-> target, arg |-> arg, result |-> result]

\* No file: os.path.exists(self.local_kb_path) is false.
NoFile == <<"no file">>
NoReply == [answer |-> <<>>, source |-> "", rating_id |-> NoId]

\* The requests the server handles at the same time (threads or workers),
\* and a request that is not under way.
Requests == {1, 2}
NoRequest == [user |-> NoId, balance |-> 0, cart |-> EmptyCart]

\* The tables after db.create_all() and the registrations.
InitStore ==
    /\ role = RegisteredRole
    /\ balance = [u \in Users |-> 0]
    /\ active = [u \in Users |-> TRUE]
    /\ cart = [u \in Users |-> EmptyCart]
    /\ orders = <<>>
    /\ items = <<>>
    /\ bids = <<>>
    /\ complaints = <<>>
    /\ warnings = <<>>
    /\ blacklist = <<>>
    /\ deposits = 0
    /\ ret = Response("start", NoId, NoId, "", "")
    /\ kb = <<>>
    /\ ratings = <<>>
    /\ reply = NoReply
    /\ posted = 0
    /\ inflight = [p \in Requests |-> NoRequest]

\* The deployment of config.py's defaults: no API key, and the repository
\* ships no knowledge base file.
Init ==
    /\ InitStore
    /\ corpus = NoFile
    /\ api_key = FALSE

(***************************************************************************)
(* Helpers on tables.                                                      *)
(***************************************************************************)
Ids(table) == DOMAIN table

RECURSIVE SumOver(_, _)
SumOver(S, f) ==
    IF S = {} THEN 0
    ELSE LET x == CHOOSE y \in S : TRUE
         IN f[x] + SumOver(S \ {x}, f)

Min(S) == CHOOSE x \in S : \A y \in S : x <= y

(***************************************************************************)
(* delivery_bid: a delivery person bids on an order that has no delivery   *)
(* person yet.  The bid amount is not modelled.                            *)
(***************************************************************************)
BidAllowed(o) == orders[o].delivery_person_id = NoId

DeliveryBid(u, o) ==
    /\ role[u] = "DeliveryPerson"
    /\ IF o \notin Ids(orders)
       THEN /\ ret' = Response("delivery_bid", u, o, "", "404")
            /\ UNCHANGED bids
       ELSE IF ~BidAllowed(o)
       THEN /\ ret' = Response("delivery_bid", u, o, "", "already assigned")
            /\ UNCHANGED bids
       ELSE /\ Len(bids) < MaxBids
            /\ bids' = Append(bids, [order_id |-> o, delivery_person_id |-> u,
                                     status |-> "Pending"])
            /\ ret' = Response("delivery_bid", u, o, "", "ok")
    /\ UNCHANGED <<role, balance, active, cart, orders, items, complaints,
                   warnings, blacklist, deposits>>
    /\ UNCHANGED <<kbvars, inflight>>

(***************************************************************************)
(* assign_order: the manager gives an order to a delivery person.          *)
(* FirstBid is filter_by(order_id, delivery_person_id).first(): the row    *)
(* with the lowest id.  The bulk update runs after the session's autoflush *)
(* of the accepted bid, so it rejects only the bids still Pending.         *)
(***************************************************************************)
BidsOf(table, o) == {b \in Ids(table) : table[b].order_id = o}

FirstBid(o, d) ==
    LET S == {b \in BidsOf(bids, o) : bids[b].delivery_person_id = d}
    IN IF S = {} THEN NoId ELSE Min(S)

AcceptBid(table, b) ==
    IF b = NoId THEN table ELSE [table EXCEPT ![b].status = "Accepted"]

RejectPending(table, o) ==
    [b \in Ids(table) |->
        IF table[b].order_id = o /\ table[b].status = "Pending"
        THEN [table[b] EXCEPT !.status = "Rejected"]
        ELSE table[b]]

AssignOrder(u, o, d) ==
    /\ role[u] = "Manager"
    /\ IF o \notin Ids(orders)
       THEN /\ ret' = Response("assign_order", u, o, "", "404")
            /\ UNCHANGED <<orders, bids>>
       ELSE /\ orders' = [orders EXCEPT ![o].delivery_person_id = d,
                                        ![o].status = "Out for Delivery"]
            /\ bids' = RejectPending(AcceptBid(bids, FirstBid(o, d)), o)
            /\ ret' = Response("assign_order", u, o, "", "ok")
    /\ UNCHANGED <<role, balance, active, cart, items, complaints,
                   warnings, blacklist, deposits>>
    /\ UNCHANGED <<kbvars, inflight>>

(***************************************************************************)
(* add_to_cart / remove_from_cart: the cart of the session.  A quantity 0  *)
(* stands for a menu id that is not a key of the cart.                     *)
(***************************************************************************)
AddToCart(u, m, q) ==
    /\ m \in Menu
    /\ cart[u][m] + q <= MaxQty
    /\ cart' = [cart EXCEPT ![u][m] = @ + q]
    /\ ret' = Response("add_to_cart", u, m, "", "ok")
    /\ UNCHANGED <<role, balance, active, orders, items, bids, complaints,
                   warnings, blacklist, deposits>>
    /\ UNCHANGED <<kbvars, inflight>>

RemoveFromCart(u, m) ==
    /\ cart' = [cart EXCEPT ![u][m] = 0]
    /\ ret' = Response("remove_from_cart", u, m, "", "ok")
    /\ UNCHANGED <<role, balance, active, orders, items, bids, complaints,
                   warnings, blacklist, deposits>>
    /\ UNCHANGED <<kbvars, inflight>>

(***************************************************************************)
(* deposit: adds a positive amount to the balance of a customer.           *)
(***************************************************************************)
Deposit(u, amount) ==
    /\ role[u] \in CustomerRoles
    /\ IF amount > 0
       THEN /\ deposits < MaxDeposits
            /\ balance' = [balance EXCEPT ![u] = @ + amount]
            /\ deposits' = deposits + 1
            /\ ret' = Response("deposit", u, NoId, "", "ok")
       ELSE /\ ret' = Response("deposit", u, NoId, "", "invalid amount")
            /\ UNCHANGED <<balance, deposits>>
    /\ UNCHANGED <<role, active, cart, orders, items, bids, complaints,
                   warnings, blacklist>>
    /\ UNCHANGED <<kbvars, inflight>>

(***************************************************************************)
(* utils.py: the queries and the VIP promotion rule.  The rule is applied  *)
(* to the tables as they stand when it is called, so it takes them as      *)
(* parameters.                                                             *)
(***************************************************************************)
VipSpendingThreshold == 100
VipOrderThreshold == 3

\* Mutant: the warnings of every account are counted.
get_user_warning_count_AnyUser(table, u) ==
    Cardinality({w \in Ids(table) : table[w].user_id \in Users})

get_user_warning_count(table, u) ==
    Cardinality({w \in Ids(table) : table[w].user_id = u})

is_user_blacklisted(u) == \E b \in Ids(blacklist) : blacklist[b].user_id = u

DeliveredOrders(ords, u) ==
    {o \in Ids(ords) : ords[o].customer_id = u /\ ords[o].status = "Delivered"}

get_user_total_spending(ords, u) ==
    SumOver(DeliveredOrders(ords, u), [o \in Ids(ords) |-> ords[o].total_amount])

\* Mutant: a complaint of any status counts.
ApprovedComplaints_AnyStatus(cmps, S) ==
    Cardinality({c \in Ids(cmps) : cmps[c].order_id \in S})

ApprovedComplaints(cmps, S) ==
    Cardinality({c \in Ids(cmps) :
                    cmps[c].order_id \in S /\ cmps[c].status = "Approved"})

\* Mutant: every account that is not a Customer passes for a VIP.
calculate_vip_status_NotCustomer(rl, ords, cmps, u) ==
    IF u \notin DOMAIN rl THEN FALSE
    ELSE IF rl[u] # "Customer" THEN TRUE
    ELSE IF get_user_total_spending(ords, u) > VipSpendingThreshold THEN TRUE
    ELSE /\ Cardinality(DeliveredOrders(ords, u)) >= VipOrderThreshold
         /\ ApprovedComplaints(cmps, DeliveredOrders(ords, u)) = 0

\* Mutant: a total equal to the threshold promotes too.
calculate_vip_status_Inclusive(rl, ords, cmps, u) ==
    IF u \notin DOMAIN rl THEN FALSE
    ELSE IF rl[u] \in {"Chef", "DeliveryPerson", "Manager"} THEN FALSE
    ELSE IF rl[u] = "VIP" THEN TRUE
    ELSE IF get_user_total_spending(ords, u) >= VipSpendingThreshold THEN TRUE
    ELSE /\ Cardinality(DeliveredOrders(ords, u)) >= VipOrderThreshold
         /\ ApprovedComplaints(cmps, DeliveredOrders(ords, u)) = 0

\* The value calculate_vip_status returns (u may be the id of no account).
calculate_vip_status(rl, ords, cmps, u) ==
    IF u \notin DOMAIN rl THEN FALSE
    ELSE IF rl[u] \in {"Chef", "DeliveryPerson", "Manager"} THEN FALSE
    ELSE IF rl[u] = "VIP" THEN TRUE
    ELSE IF get_user_total_spending(ords, u) > VipSpendingThreshold THEN TRUE
    ELSE /\ Cardinality(DeliveredOrders(ords, u)) >= VipOrderThreshold
         /\ ApprovedComplaints(cmps, DeliveredOrders(ords, u)) = 0

\* Mutant: the promotion is not written to the account.
RoleAfterVipCheck_Unsaved(rl, ords, cmps, u) == rl

\* The users.role column after calculate_vip_status.
RoleAfterVipCheck(rl, ords, cmps, u) ==
    IF calculate_vip_status(rl, ords, cmps, u)
    THEN [rl EXCEPT ![u] = "VIP"]
    ELSE rl

\* A call of calculate_vip_status(u) on the tables as they stand.
EvaluateAndPromote(u) ==
    /\ role' = RoleAfterVipCheck(role, orders, complaints, u)
    /\ ret' = Response("calculate_vip_status", u, NoId, "",
                       IF calculate_vip_status(role, orders, complaints, u)
                       THEN "True" ELSE "False")
    /\ UNCHANGED <<balance, active, cart, orders, items, bids, complaints,
                   warnings, blacklist, deposits>>
    /\ UNCHANGED <<kbvars, inflight>>

\* Mutant: the blacklist is not consulted.
can_user_place_order_ActiveOnly(u) ==
    IF ~active[u] THEN "inactive" ELSE "ok"

can_user_place_order(u) ==
    IF is_user_blacklisted(u) THEN "blacklisted"
    ELSE IF ~active[u] THEN "inactive"
    ELSE "ok"

(***************************************************************************)
(* place_order: checkout of the session's cart.                            *)
(***************************************************************************)
CartKeys(c) == {m \in Menu : c[m] # 0}

\* Mutant: the quantities are ignored.
CartTotal_UnitPrices(c) == SumOver(CartKeys(c), [m \in Menu |-> Price(m)])

CartTotal(c) == SumOver(CartKeys(c), [m \in Menu |-> Price(m) * c[m]])

\* Mutant: the account may overdraw by the price of the cheapest dish.
InsufficientBalance_Overdraft(u, total) == balance[u] + Price(1) < total

\* Mutant: only an empty balance is refused.
InsufficientBalance_EmptyOnly(u, total) == balance[u] <= 0

InsufficientBalance(u, total) == balance[u] < total

RECURSIVE CartItems(_, _, _)
CartItems(c, keys, o) ==
    IF keys = {} THEN <<>>
    ELSE LET m == Min(keys)
         IN <<[order_id |-> o, menu_item_id |-> m, quantity |-> c[m],
               subtotal |-> Price(m) * c[m]]>>
            \o CartItems(c, keys \ {m}, o)

PlaceOrder(u) ==
    /\ role[u] \in CustomerRoles
    /\ LET total == CartTotal(cart[u])
           oid == Len(orders) + 1
       IN IF can_user_place_order(u) # "ok"
          THEN /\ ret' = Response("place_order", u, NoId, "", can_user_place_order(u))
               /\ UNCHANGED <<role, balance, cart, orders, items>>
          ELSE IF CartKeys(cart[u]) = {}
          THEN /\ ret' = Response("place_order", u, NoId, "", "empty cart")
               /\ UNCHANGED <<role, balance, cart, orders, items>>
          ELSE IF InsufficientBalance(u, total)
          THEN /\ ret' = Response("place_order", u, NoId, "", "insufficient balance")
               /\ UNCHANGED <<role, balance, cart, orders, items>>
          ELSE /\ Len(orders) < MaxOrders
               /\ orders' = Append(orders,
                      [customer_id |-> u, delivery_person_id |-> NoId,
                       status |-> "Pending", total_amount |-> total])
               /\ items' = items \o CartItems(cart[u], CartKeys(cart[u]), oid)
               /\ balance' = [balance EXCEPT ![u] = @ - total]
               /\ cart' = [cart EXCEPT ![u] = EmptyCart]
               /\ role' = RoleAfterVipCheck(role, orders', complaints, u)
               /\ ret' = Response("place_order", u, oid, "", "ok")
    /\ UNCHANGED <<active, bids, complaints, warnings, blacklist, deposits>>
    /\ UNCHANGED <<kbvars, inflight>>

(***************************************************************************)
(* place_order as two requests of one account run it at the same time.     *)
(* BeginPlaceOrder is the request up to the balance check: Flask-Login has *)
(* loaded current_user into the request's own session, and the cart is the *)
(* one of the request's cookie.  FinishPlaceOrder is the rest: the inserts *)
(* and 'current_user.balance -= total', which SQLAlchemy computes from the *)
(* loaded value and writes as UPDATE users SET balance = <value>.          *)
(***************************************************************************)
BeginPlaceOrder(p, u) ==
    /\ inflight[p] = NoRequest
    /\ role[u] \in CustomerRoles
    /\ LET total == CartTotal(cart[u])
       IN IF can_user_place_order(u) # "ok"
          THEN /\ ret' = Response("place_order", u, NoId, "", can_user_place_order(u))
               /\ UNCHANGED inflight
          ELSE IF CartKeys(cart[u]) = {}
          THEN /\ ret' = Response("place_order", u, NoId, "", "empty cart")
               /\ UNCHANGED inflight
          ELSE IF InsufficientBalance(u, total)
          THEN /\ ret' = Response("place_order", u, NoId, "", "insufficient balance")
               /\ UNCHANGED inflight
          ELSE /\ inflight' = [inflight EXCEPT ![p] =
                      [user |-> u, balance |-> balance[u], cart |-> cart[u]]]
               /\ UNCHANGED ret
    /\ UNCHANGED <<role, balance, active, cart, orders, items, bids, complaints,
                   warnings, blacklist, deposits>>
    /\ UNCHANGED kbvars

\* The balance the request writes: the one it has loaded, less the total.
Debited(r, total) == r.balance - total

FinishPlaceOrder(p) ==
    /\ inflight[p] # NoRequest
    /\ LET r == inflight[p]
           u == r.user
           total == CartTotal(r.cart)
           oid == Len(orders) + 1
       IN /\ Len(orders) < MaxOrders
          /\ orders' = Append(orders,
                 [customer_id |-> u, delivery_person_id |-> NoId,
                  status |-> "Pending", total_amount |-> total])
          /\ items' = items \o CartItems(r.cart, CartKeys(r.cart), oid)
          /\ balance' = [balance EXCEPT ![u] = Debited(r, total)]
          /\ cart' = [cart EXCEPT ![u] = EmptyCart]
          /\ role' = RoleAfterVipCheck(role, orders', complaints, u)
          /\ ret' = Response("place_order", u, oid, "", "ok")
    /\ inflight' = [inflight EXCEPT ![p] = NoRequest]
    /\ UNCHANGED <<active, bids, complaints, warnings, blacklist, deposits>>
    /\ UNCHANGED kbvars

(***************************************************************************)
(* update_order_status: any logged-in account may call it; the handler     *)
(* decides whether the status is written.                                  *)
(***************************************************************************)
\* Mutant: a delivery person may update any order.
CanUpdate_AnyCourier(u, o) ==
    \/ role[u] = "Manager"
    \/ role[u] = "Chef" /\ orders[o].status \in {"Pending", "Preparing"}
    \/ role[u] = "DeliveryPerson"

CanUpdate(u, o) ==
    \/ role[u] = "Manager"
    \/ role[u] = "Chef" /\ orders[o].status \in {"Pending", "Preparing"}
    \/ role[u] = "DeliveryPerson" /\ orders[o].delivery_person_id = u

\* Mutant: Cancelled is accepted too.
AcceptedStatus_WithCancelled(s) == s \in OrderStatuses \cup {"Cancelled"}

AcceptedStatus(s) == s \in OrderStatuses

UpdateOrderStatus(u, o, s) ==
    /\ IF o \notin Ids(orders)
       THEN /\ ret' = Response("update_order_status", u, o, s, "404")
            /\ UNCHANGED orders
       ELSE IF CanUpdate(u, o) /\ AcceptedStatus(s)
       THEN /\ orders' = [orders EXCEPT ![o].status = s]
            /\ ret' = Response("update_order_status", u, o, s, "ok")
       ELSE /\ ret' = Response("update_order_status", u, o, s, "no permission")
            /\ UNCHANGED orders
    /\ UNCHANGED <<role, balance, active, cart, items, bids, complaints,
                   warnings, blacklist, deposits>>
    /\ UNCHANGED <<kbvars, inflight>>

(***************************************************************************)
(* file_complaint: any logged-in account files a complaint against an      *)
(* account, optionally about an order (NoId: none).  The text columns that *)
(* are NULL until the review hold "NULL"; reviewed tells whether           *)
(* reviewed_at has been stamped.                                           *)
(***************************************************************************)
FileComplaint(u, against, o) ==
    /\ Len(complaints) < MaxComplaints
    /\ complaints' = Append(complaints,
           [filed_by_id |-> u, filed_against_id |-> against, order_id |-> o,
            status |-> "Pending", manager_decision |-> "NULL",
            manager_notes |-> "NULL", reviewed |-> FALSE])
    /\ ret' = Response("file_complaint", u, Len(complaints) + 1, "", "ok")
    /\ UNCHANGED <<role, balance, active, cart, orders, items, bids,
                   warnings, blacklist, deposits>>
    /\ UNCHANGED <<kbvars, inflight>>

(***************************************************************************)
(* process_complaint_decision (called by review_complaint).  The warning   *)
(* is flushed before it is counted, so the count includes it.  The         *)
(* blacklist table has a unique user_id: inserting a second row for an     *)
(* account makes the commit raise IntegrityError, which rolls the whole    *)
(* transaction back and leaves the request without a return value.         *)
(***************************************************************************)
BlacklistThreshold == 3
DemoteThreshold == 2

\* Mutant: an unknown id falls back to the newest complaint.
GetComplaint_OrLast(c) ==
    IF c \in Ids(complaints) THEN c
    ELSE IF complaints # <<>> THEN Len(complaints) ELSE NoId

GetComplaint(c) == IF c \in Ids(complaints) THEN c ELSE NoId

StampedStatus(decision) == IF decision = "Approved" THEN "Approved" ELSE "Rejected"

Stamp(row, decision, notes) ==
    [row EXCEPT !.status = StampedStatus(decision),
                !.manager_decision = decision,
                !.manager_notes = notes,
                !.reviewed = TRUE]

\* Mutant: every decision issues a warning.
IssuesWarning_Always(decision) == decision \in {"Approved", "Rejected"}

IssuesWarning(decision) == decision = "Rejected"

WarnedUser(c) == complaints[c].filed_by_id

\* Mutant: the blacklist threshold is that of the demotion.
ShouldBlacklist_AtTwo(count) == count >= DemoteThreshold

ShouldBlacklist(count) == count >= BlacklistThreshold

\* Mutant: the second warning makes any account a Customer.
ShouldDemote_AnyRole(count, r) == count >= DemoteThreshold /\ r \in Roles

ShouldDemote(count, r) == count >= DemoteThreshold /\ r = "VIP"

UniqueViolation(table, u) == \E b \in Ids(table) : table[b].user_id = u

ReviewComplaint(u, cid, decision, notes) ==
    /\ role[u] = "Manager"
    /\ LET c == GetComplaint(cid)
       IN IF c = NoId
          THEN /\ ret' = Response("review_complaint", u, cid, decision, "False")
               /\ UNCHANGED <<role, active, complaints, warnings, blacklist>>
          ELSE LET filer == WarnedUser(c)
                   stamped == [complaints EXCEPT ![c] = Stamp(@, decision, notes)]
                   warned == Append(warnings, [user_id |-> filer, complaint_id |-> c])
                   count == get_user_warning_count(warned, filer)
               IN IF ~IssuesWarning(decision)
                  THEN /\ complaints' = stamped
                       /\ ret' = Response("review_complaint", u, cid, decision, "True")
                       /\ UNCHANGED <<role, active, warnings, blacklist>>
                  ELSE IF ShouldBlacklist(count) /\ UniqueViolation(blacklist, filer)
                  THEN /\ ret' = Response("review_complaint", u, cid, decision,
                                          "IntegrityError")
                       /\ UNCHANGED <<role, active, complaints, warnings, blacklist>>
                  ELSE /\ Len(warnings) < MaxWarnings
                       /\ complaints' = stamped
                       /\ warnings' = warned
                       /\ ret' = Response("review_complaint", u, cid, decision, "True")
                       /\ IF ShouldBlacklist(count)
                          THEN /\ blacklist' = Append(blacklist, [user_id |-> filer])
                               /\ active' = [active EXCEPT ![filer] = FALSE]
                               /\ UNCHANGED role
                          ELSE IF ShouldDemote(count, role[filer])
                          THEN /\ role' = [role EXCEPT ![filer] = "Customer"]
                               /\ UNCHANGED <<active, blacklist>>
                          ELSE UNCHANGED <<role, active, blacklist>>
    /\ UNCHANGED <<balance, cart, orders, items, bids, deposits>>
    /\ UNCHANGED <<kbvars, inflight>>

(***************************************************************************)
(* hire_fire: the manager sets or clears is_active of any account.         *)
(***************************************************************************)
HireFire(u, target, action) ==
    /\ role[u] = "Manager"
    /\ target \in Users
    /\ active' = [active EXCEPT ![target] =
                      IF action = "fire" THEN FALSE
                      ELSE IF action = "hire" THEN TRUE
                      ELSE @]
    /\ ret' = Response("hire_fire", u, target, action, "ok")
    /\ UNCHANGED <<role, balance, cart, orders, items, bids, complaints,
                   warnings, blacklist, deposits>>
    /\ UNCHANGED <<kbvars, inflight>>

(***************************************************************************)
(* ai_service.py: text.  A text is a sequence of characters; the operators *)
(* below are the string methods search_local_knowledge_base calls.         *)
(***************************************************************************)
Whitespace == {" ", "\n"}
SentenceEnd == {".", "!", "?"}

LowerChar(c) ==
    CASE c = "H" -> "h"
      [] c = "I" -> "i"
      [] c = "P" -> "p"
      [] c = "T" -> "t"
      [] OTHER -> c

\* str.lower()
Lower(t) == [i \in 1..Len(t) |-> LowerChar(t[i])]

\* str.split(): the maximal runs of characters that are not whitespace.
RECURSIVE SplitWords(_)
SplitWords(t) ==
    IF t = <<>> THEN <<>>
    ELSE IF Head(t) \in Whitespace THEN SplitWords(Tail(t))
    ELSE LET ends == {i \in 1..Len(t) : t[i] \in Whitespace}
             k == IF ends = {} THEN Len(t) + 1 ELSE Min(ends)
         IN <<SubSeq(t, 1, k - 1)>> \o SplitWords(SubSeq(t, k, Len(t)))

\* str.split('\n\n')
RECURSIVE SplitParagraphs(_)
SplitParagraphs(t) ==
    LET breaks == {i \in 1..(Len(t) - 1) : t[i] = "\n" /\ t[i + 1] = "\n"}
    IN IF breaks = {} THEN <<t>>
       ELSE <<SubSeq(t, 1, Min(breaks) - 1)>>
            \o SplitParagraphs(SubSeq(t, Min(breaks) + 2, Len(t)))

\* str.strip()
RECURSIVE LStrip(_)
LStrip(t) ==
    IF t # <<>> /\ Head(t) \in Whitespace THEN LStrip(Tail(t)) ELSE t

RECURSIVE RStrip(_)
RStrip(t) ==
    IF t # <<>> /\ t[Len(t)] \in Whitespace
    THEN RStrip(SubSeq(t, 1, Len(t) - 1))
    ELSE t

Strip(t) == RStrip(LStrip(t))

\* re.split(r'[.!?]\s+', t)
RECURSIVE SplitSentences(_)
SplitSentences(t) ==
    LET breaks == {i \in 1..(Len(t) - 1) :
                      t[i] \in SentenceEnd /\ t[i + 1] \in Whitespace}
    IN IF breaks = {} THEN <<t>>
       ELSE <<SubSeq(t, 1, Min(breaks) - 1)>>
            \o SplitSentences(LStrip(SubSeq(t, Min(breaks) + 1, Len(t))))

\* word in text
Contains(word, t) ==
    \E i \in 1..(Len(t) - Len(word) + 1) :
        SubSeq(t, i, i + Len(word) - 1) = word

StopWords ==
    {<<"w", "h", "a", "t">>, <<"i", "s">>, <<"t", "h", "e">>, <<"a">>,
     <<"a", "n">>, <<"h", "o", "w">>, <<"d", "o">>, <<"d", "o", "e", "s">>,
     <<"c", "a", "n">>, <<"i">>, <<"y", "o", "u">>, <<"w", "e">>, <<"a",
     "r", "e">>, <<"t", "o">>, <<"f", "o", "r">>, <<"o", "f">>, <<"w", "i",
     "t", "h">>, <<"o", "n">>, <<"a", "t">>, <<"b", "y">>, <<"f", "r", "o",
     "m">>, <<"a", "s">>, <<"a", "b", "o", "u", "t">>}

\* query_words: the tokens that are no stop word and longer than 2, or every
\* token when none is.
QueryWords(q) ==
    LET tokens == SplitWords(Lower(q))
        kept == SelectSeq(tokens, LAMBDA w : w \notin StopWords /\ Len(w) > 2)
    IN IF kept = <<>> THEN tokens ELSE kept

(***************************************************************************)
(* search_local_knowledge_base: the answer found in the file, <<>> when    *)
(* the function returns None.                                              *)
(***************************************************************************)
Score(words, t) ==
    Cardinality({i \in 1..Len(words) : Contains(words[i], Lower(t))})

\* best_matches / sentence_matches before the sort.
RECURSIVE Matches(_, _)
Matches(texts, words) ==
    IF texts = <<>> THEN <<>>
    ELSE (IF Score(words, Head(texts)) > 0
          THEN <<[score |-> Score(words, Head(texts)),
                  text |-> Strip(Head(texts))]>>
          ELSE <<>>)
         \o Matches(Tail(texts), words)

\* list.sort(reverse=True, key=score): descending and stable.
RECURSIVE SortByScore(_)
SortByScore(ms) ==
    IF ms = <<>> THEN <<>>
    ELSE LET k == Min({i \in 1..Len(ms) :
                          \A j \in 1..Len(ms) : ms[j].score <= ms[i].score})
         IN <<ms[k]>>
            \o SortByScore(SubSeq(ms, 1, k - 1) \o SubSeq(ms, k + 1, Len(ms)))

\* '. '.join of the texts of ms.
RECURSIVE Join(_)
Join(ms) ==
    IF ms = <<>> THEN <<>>
    ELSE IF Len(ms) = 1 THEN ms[1].text
    ELSE ms[1].text \o <<".", " ">> \o Join(Tail(ms))

MaxSentences == 3
MinSentenceScore == 2

\* Mutant: the second paragraph is never appended.
TopParagraphs_FirstOnly(best, n) == best[1].text

\* The paragraph stage's answer when the top paragraph has at least half of
\* the n query words (0.5 and 0.3 of n, compared in whole numbers).
TopParagraphs(best, n) ==
    IF Len(best) > 1 /\ 10 * best[2].score >= 3 * n
    THEN best[1].text \o <<"\n", "\n">> \o best[2].text
    ELSE best[1].text

\* Mutant: the top paragraph is returned whatever its score.
ParagraphStage_AnyScore(best, n) ==
    IF best # <<>> THEN TopParagraphs(best, n) ELSE <<>>

\* The paragraph stage: the sorted matches best and the n query words give
\* an answer, or <<>> when the stage falls through to the sentences.
ParagraphStage(best, n) ==
    IF best # <<>> /\ 2 * best[1].score >= n
    THEN TopParagraphs(best, n)
    ELSE <<>>

search_local_knowledge_base(content, q) ==
    IF content = NoFile THEN <<>>
    ELSE LET words == QueryWords(q)
             best == SortByScore(Matches(SplitParagraphs(content), words))
             sents == SortByScore(Matches(SplitSentences(content), words))
             joined == Join(SubSeq(sents, 1,
                                   IF Len(sents) < MaxSentences
                                   THEN Len(sents) ELSE MaxSentences))
             stage == ParagraphStage(best, Len(words))
         IN IF stage # <<>>
            THEN stage
            ELSE IF sents # <<>> /\ sents[1].score >= MinSentenceScore
            THEN IF joined[Len(joined)] = "." THEN joined
                 ELSE joined \o <<".">>
            ELSE <<>>

(***************************************************************************)
(* The files and the questions of the runs.                                *)
(***************************************************************************)
\* "Hot pie." and "Iced tea.", two paragraphs.
MenuFile ==
    <<"H", "o", "t", " ", "p", "i", "e", ".", "\n", "\n", "I", "c", "e",
    "d", " ", "t", "e", "a", ".">>

\* "Pie is hot." and, after three newlines, "Tea.".
BlankFile ==
    <<"P", "i", "e", " ", "i", "s", " ", "h", "o", "t", ".", "\n", "\n",
    "\n", "T", "e", "a", ".">>

\* "Pie" and "tea", two paragraphs of one sentence.
PlainFile ==
    <<"P", "i", "e", "\n", "\n", "t", "e", "a">>

Corpora == {NoFile, MenuFile, BlankFile, PlainFile}

\* "pie"
AskPie ==
    <<"p", "i", "e">>

\* "Hot tea"
AskHotTea ==
    <<"H", "o", "t", " ", "t", "e", "a">>

\* "Is tea iced"
AskIcedTea ==
    <<"I", "s", " ", "t", "e", "a", " ", "i", "c", "e", "d">>

\* "is"
AskIs ==
    <<"i", "s">>

\* "pie tea ice"
AskThree ==
    <<"p", "i", "e", " ", "t", "e", "a", " ", "i", "c", "e">>

\* "cake"
AskCake ==
    <<"c", "a", "k", "e">>

\* "hot pie and tea"
AskBoth ==
    <<"h", "o", "t", " ", "p", "i", "e", " ", "a", "n", "d", " ", "t", "e",
      "a">>

\* "Pie"
AskPieCap ==
    <<"P", "i", "e">>

NoQuery == <<>>
Queries ==
    {AskPie, AskHotTea, AskIcedTea, AskIs, AskThree, AskCake, AskBoth,
     AskPieCap, NoQuery}

(***************************************************************************)
(* get_ai_response (called by ai_chat) and rate_ai_response.  The route    *)
(* needs no login: u is NoId for an anonymous visitor.  ext is what        *)
(* happens to the request query_huggingface_api sends when it is called.   *)
(***************************************************************************)
MaxRatings == 2

storevars == <<role, balance, active, cart, orders, items, bids, complaints,
               warnings, blacklist, deposits>>

\* The fixed message of get_ai_response, which quotes the query.
CannedMessage(q) == <<"#">> \o q

(***************************************************************************)
(* query_huggingface_api: one requests.post with a timeout of 10 seconds,  *)
(* inside a try.  ext is the outcome of that request; the result is the    *)
(* text the function returns, <<>> when it returns None.  A body that is   *)
(* no JSON makes response.json() raise JSONDecodeError, which is a         *)
(* RequestException or only a ValueError, depending on the requests        *)
(* release.                                                                *)
(***************************************************************************)
Generated == "generated_text"
NullText == "generated_text: null"
ExternalOutcomes ==
    {"timeout", "network error", "status 503", "not json, RequestException",
     "not json, ValueError", "other json", Generated, NullText}

query_huggingface_api(ext) ==
    CASE ext = "timeout" -> <<"!", "t">>
      [] ext \in {"network error", "not json, RequestException"} -> <<"!", "r">>
      [] ext = "status 503" -> <<"!", "5", "0", "3">>
      [] ext = "not json, ValueError" -> <<"!", "e">>
      [] ext = "other json" -> <<"[", "]">>
      [] ext = Generated -> <<"@">>
      [] ext = NullText -> <<>>

\* The outcome in the runs that are about the file and the tables.
LlmReplies == {Generated}

\* Mutant: the question is compared without regard to case.
FindEntry_AnyCase(table, q) ==
    LET same == {e \in Ids(table) : Lower(table[e].question) = Lower(q)}
    IN IF same = {} THEN NoId ELSE Min(same)

\* KnowledgeBaseEntry.query.filter_by(question=q).first()
FindEntry(table, q) ==
    LET same == {e \in Ids(table) : table[e].question = q}
    IN IF same = {} THEN NoId ELSE Min(same)

AiChat(u, q, ext) ==
    /\ u \in Users \cup {NoId}
    /\ IF q = NoQuery
       THEN /\ ret' = Response("ai_chat", u, NoId, "", "no query")
            /\ UNCHANGED <<kb, ratings, reply, posted>>
       ELSE LET found == search_local_knowledge_base(corpus, q)
                called == found = <<>> /\ api_key
                answer == IF found # <<>> THEN found
                          ELSE IF api_key THEN query_huggingface_api(ext)
                          ELSE CannedMessage(q)
                source == IF called THEN "llm" ELSE "local"
                create == source = "local" /\ FindEntry(kb, q) = NoId
                entry == IF source # "local" THEN NoId
                         ELSE IF create THEN Len(kb) + 1
                         ELSE FindEntry(kb, q)
                rid == Len(ratings) + 1
            IN \* only a None answer leaves the tables as they are
               /\ ext = NullText \/ Len(ratings) < MaxRatings
               /\ posted' = IF called THEN 1 ELSE 0
               /\ IF answer = <<>>
                  \* response is NOT NULL: the commit raises IntegrityError
                  THEN /\ ret' = Response("ai_chat", u, NoId, "", "IntegrityError")
                       /\ UNCHANGED <<kb, ratings, reply>>
                  ELSE /\ Len(ratings) < MaxRatings
                       /\ kb' = IF create
                                THEN Append(kb, [question |-> q, answer |-> answer,
                                                 rating |-> 0, rating_count |-> 0,
                                                 flagged |-> FALSE])
                                ELSE kb
                       /\ ratings' = Append(ratings,
                              [kb_entry_id |-> entry, user_id |-> u, query |-> q,
                               response |-> answer, rating |-> 0,
                               source |-> source])
                       /\ reply' = [answer |-> answer, source |-> source,
                                    rating_id |-> rid]
                       /\ ret' = Response("ai_chat", u, rid, "", "ok")
    /\ UNCHANGED <<storevars, corpus, api_key, inflight>>

\* Mutant: only a rating above 5 is refused.
ValidRating_NoLowerBound(v) == ~(v > 5)

ValidRating(v) == ~(v < 0 \/ v > 5)

\* The ratings above 0 of the responses linked to entry e.
PositiveRatings(table, e) ==
    {r \in Ids(table) : table[r].kb_entry_id = e /\ table[r].rating > 0}

\* KnowledgeBaseEntry.rating holds the mean in sixtieths, which is exact for
\* up to six ratings.
AverageScale == 60
Average(table, S) ==
    (AverageScale * SumOver(S, [r \in Ids(table) |-> table[r].rating]))
        \div Cardinality(S)

RateAiResponse(rid, v) ==
    /\ IF ~ValidRating(v) \/ rid \notin Ids(ratings)
       THEN /\ ret' = Response("rate_ai_response", NoId, rid, ToString(v),
                               "False")
            /\ UNCHANGED <<kb, ratings>>
       ELSE LET rated == [ratings EXCEPT ![rid].rating = v]
                e == ratings[rid].kb_entry_id
                S == PositiveRatings(rated, e)
            IN /\ ratings' = rated
               /\ kb' = IF v = 0 /\ e # NoId /\ e \in Ids(kb)
                        THEN [kb EXCEPT
                                ![e].flagged = TRUE,
                                ![e].rating =
                                    IF S # {} THEN Average(rated, S) ELSE @,
                                ![e].rating_count =
                                    IF S # {} THEN Cardinality(S) ELSE @]
                        ELSE kb
               /\ ret' = Response("rate_ai_response", NoId, rid, ToString(v),
                                  "True")
    /\ UNCHANGED <<storevars, corpus, api_key, reply, posted, inflight>>

\* unflag_kb_entry: the manager clears the flag of an entry.
UnflagKbEntry(u, e) ==
    /\ role[u] = "Manager"
    /\ IF e \notin Ids(kb)
       THEN /\ ret' = Response("unflag_kb_entry", u, e, "", "404")
            /\ UNCHANGED kb
       ELSE /\ kb' = [kb EXCEPT ![e].flagged = FALSE]
            /\ ret' = Response("unflag_kb_entry", u, e, "", "ok")
    /\ UNCHANGED <<storevars, ratings, corpus, api_key, reply, posted, inflight>>

(***************************************************************************)
(* Specifications.  Each one runs the handlers of one part of the          *)
(* application from the initial database, with its own input sets.         *)
(***************************************************************************)
OrderInputs == 1..MaxOrders
ComplaintInputs == 1..(MaxComplaints + 1)

\* The runs that need no third order stop one order short of MaxOrders.
FewerOrders(ords) == Len(ords) < MaxOrders

\* One deposit and a cart of one dish: enough to place the orders.
FundedCheckout(u) ==
    \/ deposits = 0 /\ Deposit(u, 60)
    \/ cart[u][1] = 0 /\ AddToCart(u, 1, 1)
    \/ PlaceOrder(u) /\ FewerOrders(orders')

\* assign_order stores int(form['delivery_person_id']) as it comes: the two
\* delivery people, or 0, which no account has.
AssigneeInputs == {NoId, 4, 5}

\* Delivery bidding and assignment.
NextDelivery ==
    \/ FundedCheckout(2)
    \/ \E u \in {4, 5}, o \in OrderInputs : DeliveryBid(u, o)
    \/ \E o \in OrderInputs, d \in AssigneeInputs : AssignOrder(1, o, d)

SpecDelivery == Init /\ [][NextDelivery]_vars

\* Complaints, warnings, demotion and blacklisting.
NextEscalation ==
    \/ \E u \in {2, 3} : FileComplaint(u, 6, NoId)
    \/ \E c \in ComplaintInputs, d \in Decisions, n \in Notes :
          ReviewComplaint(1, c, d, n)
    \/ \E a \in {"hire", "fire"} : HireFire(1, 2, a)

SpecEscalation == Init /\ [][NextEscalation]_vars

\* Ordering by an account that collects warnings and is fired or rehired.
NextBarred ==
    \/ FundedCheckout(2)
    \/ FileComplaint(2, 6, NoId)
    \/ \E c \in ComplaintInputs, d \in {"Approved", "Rejected"} :
          ReviewComplaint(1, c, d, "")
    \/ \E a \in {"hire", "fire"} : HireFire(1, 2, a)

SpecBarred == Init /\ [][NextBarred]_vars

\* Orders, their delivery, complaints and HR together: every operation that
\* runs the promotion or the escalation rule, for a customer who can afford
\* the promotion and a visitor who only complains.
NextRoles ==
    \/ deposits = 0 /\ Deposit(3, 240)
    \/ cart[3][2] = 0 /\ AddToCart(3, 2, 2)
    \/ PlaceOrder(3) /\ FewerOrders(orders')
    \/ \E o \in OrderInputs : UpdateOrderStatus(1, o, "Delivered")
    \/ AssignOrder(1, 1, 4)
    \/ \E u \in {3, 7} : FileComplaint(u, 6, NoId)
    \/ \E c \in ComplaintInputs : ReviewComplaint(1, c, "Rejected", "")
    \/ \E a \in {"hire", "fire"} : HireFire(1, 3, a)

SpecRoles == Init /\ [][NextRoles]_vars

\* Two checkouts of one account at the same time; the account deposits and
\* fills its cart while no checkout is under way.
Idle == \A p \in Requests : inflight[p] = NoRequest

NextConcurrent ==
    \/ Idle /\ Deposit(3, 70)
    \/ Idle /\ AddToCart(3, 2, 1)
    \/ \E p \in Requests : BeginPlaceOrder(p, 3)
    \/ \E p \in Requests : FinishPlaceOrder(p)

SpecConcurrent == Init /\ [][NextConcurrent]_vars

\* Carts, deposits, checkout and the order's status.
NextOrders ==
    \/ \E a \in DepositAmounts : Deposit(3, a)
    \/ \E m \in Menu : AddToCart(3, m, 1)
    \/ \E m \in Menu : RemoveFromCart(3, m)
    \/ PlaceOrder(3) /\ FewerOrders(orders')
    \/ \E o \in OrderInputs : UpdateOrderStatus(1, o, "Delivered")
    \/ EvaluateAndPromote(3)

SpecOrders == Init /\ [][NextOrders]_vars

\* Orders of one dish that are delivered and complained about, and the
\* promotion rule called for any account id.
NextLoyalty ==
    \/ deposits = 0 /\ Deposit(3, 60)
    \/ cart[3][1] = 0 /\ AddToCart(3, 1, 1)
    \/ PlaceOrder(3)
    \/ \E o \in OrderInputs : UpdateOrderStatus(1, o, "Delivered")
    \/ \E o \in {NoId, 1} :
          FileComplaint(2, 6, o) /\ Len(complaints') < MaxComplaints
    \/ \E c \in ComplaintInputs, d \in {"Approved", "Rejected"} :
          ReviewComplaint(1, c, d, "")
    \/ \E u \in Users \cup {UnknownUser} : EvaluateAndPromote(u)

SpecLoyalty == Init /\ [][NextLoyalty]_vars

\* The status of an order: update_order_status called by accounts of every
\* role with the status of the form, and assign_order by the manager.
\* MissingStatus: the form has no status field (form.get returns None).
MissingStatus == "<missing>"
StatusInputs == OrderStatuses \cup {"Cancelled", MissingStatus}
FewestOrders(ords) == Len(ords) + 1 < MaxOrders

NextStatus ==
    \/ deposits = 0 /\ Deposit(2, 60)
    \/ cart[2][1] = 0 /\ AddToCart(2, 1, 1)
    \/ PlaceOrder(2) /\ FewestOrders(orders')
    \/ \E u \in Users \ {5}, o \in OrderInputs, s \in StatusInputs :
          UpdateOrderStatus(u, o, s)
    \/ \E o \in OrderInputs, d \in {4, 5} : AssignOrder(1, o, d)

SpecStatus == Init /\ [][NextStatus]_vars

\* Questions to the AI customer service, for each knowledge base file and
\* with or without an API key.
InitAnswer ==
    /\ InitStore
    /\ corpus \in Corpora
    /\ api_key \in BOOLEAN

NextAnswer ==
    \E u \in {NoId, 3}, q \in Queries, ext \in LlmReplies : AiChat(u, q, ext)

SpecAnswer == InitAnswer /\ [][NextAnswer]_vars

\* The external completion service: deployments with and without an API key
\* and a knowledge base file, and every outcome of the request.
ExternalQueries == {AskPie, AskCake, NoQuery}

InitExternal ==
    /\ InitStore
    /\ corpus \in {NoFile, PlainFile}
    /\ api_key \in BOOLEAN

NextExternal ==
    \E u \in {NoId, 3}, q \in ExternalQueries, ext \in ExternalOutcomes :
        AiChat(u, q, ext)

SpecExternal == InitExternal /\ [][NextExternal]_vars

\* Ratings of the answers, without a knowledge base file and with or without
\* an API key.
RatingInputs == {-1, 0, 1, 5, 6}
RatingIds == 1..(MaxRatings + 1)

InitKB ==
    /\ InitStore
    /\ corpus = NoFile
    /\ api_key \in BOOLEAN

NextKB ==
    \/ \E q \in {AskPie, AskCake}, ext \in LlmReplies : AiChat(3, q, ext)
    \/ \E rid \in RatingIds, v \in RatingInputs : RateAiResponse(rid, v)
    \/ \E e \in RatingIds : UnflagKbEntry(1, e)

SpecKB == InitKB /\ [][NextKB]_vars

Next ==
    \/ NextDelivery \/ NextEscalation \/ NextBarred \/ NextOrders
    \/ NextLoyalty \/ NextStatus \/ NextAnswer \/ NextKB
    \/ NextRoles \/ NextExternal \/ NextConcurrent

Spec == Init /\ [][Next]_vars

(***************************************************************************)
(* Properties of delivery bidding and assignment (SpecDelivery).           *)
(***************************************************************************)
AcceptedBids(table, o) == {b \in BidsOf(table, o) : table[b].status = "Accepted"}
PendingBids(table, o) == {b \in BidsOf(table, o) : table[b].status = "Pending"}

\* C1: in every reachable state each order has at most one bid whose status
\* is Accepted, also after assign_order has run several times on the order.
C1_AtMostOneAccepted ==
    \A o \in Ids(orders) : Cardinality(AcceptedBids(bids, o)) <= 1

\* C2: after assign_order(order, person) no bid on the order is left Pending
\* (every bid that was Pending and is not the chosen one is Rejected) and
\* exactly one bid on the order is Accepted.
C2_AssignResolvesBids ==
    [][\A o \in OrderInputs, d \in Users :
          (o \in Ids(orders) /\ AssignOrder(1, o, d)) =>
              /\ \A b \in PendingBids(bids, o) :
                    b # FirstBid(o, d) => bids'[b].status = "Rejected"
              /\ PendingBids(bids', o) = {}
              /\ Cardinality(AcceptedBids(bids', o)) = 1]_vars

(***************************************************************************)
(* Properties of ordering (SpecBarred, SpecOrders).                        *)
(***************************************************************************)
\* C3: place_order by an account that has a Blacklist entry or is inactive
\* creates no order and no line item and leaves the balance as it is; a
\* Blacklist entry is never removed, so for a blacklisted account this holds
\* in every later state, also after the manager has rehired the account.
C3_BarredCannotOrder ==
    [][/\ \A u \in Users :
             ((is_user_blacklisted(u) \/ ~active[u]) /\ PlaceOrder(u)) =>
                 /\ orders' = orders
                 /\ items' = items
                 /\ balance' = balance
                 /\ ret'.result \in {"blacklisted", "inactive"}
       /\ \A u \in Users :
             is_user_blacklisted(u) => UniqueViolation(blacklist', u)]_vars

\* A blacklisted account that was rehired, has the money and a filled cart,
\* and whose checkout was refused.
C3_Witness ==
    \E u \in Users :
        /\ ret.op = "place_order" /\ ret.user = u /\ ret.result = "blacklisted"
        /\ is_user_blacklisted(u)
        /\ active[u]
        /\ CartKeys(cart[u]) # {}
        /\ balance[u] >= CartTotal(cart[u])

\* C4: place_order by an account whose balance is strictly less than the
\* cart's total creates no order and no line item, leaves the balance and
\* the role unchanged, and reports a failure.
C4_InsufficientBalanceRejected ==
    [][\A u \in Users :
          (balance[u] < CartTotal(cart[u]) /\ PlaceOrder(u)) =>
              /\ orders' = orders
              /\ items' = items
              /\ balance' = balance
              /\ role' = role
              /\ ret'.result # "ok"]_vars

\* A refused checkout of a Customer who would be promoted if the rule ran.
C4_Witness ==
    \E u \in Users :
        /\ ret.op = "place_order" /\ ret.user = u
        /\ ret.result = "insufficient balance"
        /\ balance[u] < CartTotal(cart[u])
        /\ role[u] = "Customer"
        /\ get_user_total_spending(orders, u) > VipSpendingThreshold

(***************************************************************************)
(* Properties of the escalation rule (SpecEscalation).                     *)
(***************************************************************************)
OtherColumnsKept(c) ==
    /\ Len(complaints') = Len(complaints)
    /\ \A k \in Ids(complaints) : k # c => complaints'[k] = complaints[k]
    /\ complaints'[c].filed_by_id = complaints[c].filed_by_id
    /\ complaints'[c].filed_against_id = complaints[c].filed_against_id
    /\ complaints'[c].order_id = complaints[c].order_id

\* C5: every resolve_complaint of an existing complaint with decision
\* Rejected adds exactly one Warning, which belongs to the filer and
\* references the complaint, and changes no other account's warning count.
C5_RejectedAddsOneWarning ==
    [][\A c \in ComplaintInputs, n \in Notes :
          (c \in Ids(complaints) /\ ReviewComplaint(1, c, "Rejected", n)) =>
              /\ warnings' = Append(warnings,
                     [user_id |-> complaints[c].filed_by_id, complaint_id |-> c])
              /\ \A u \in Users :
                    get_user_warning_count(warnings', u) =
                        get_user_warning_count(warnings, u)
                        + (IF u = complaints[c].filed_by_id THEN 1 ELSE 0)]_vars

\* C6: a Rejected resolution that brings the filer's warning count to 3 or
\* more returns true, leaves the filer with exactly one Blacklist entry and
\* inactive, and does not change the filer's role; also when the filer had
\* a Blacklist entry before the call.
C6_BlacklistAtThree ==
    [][\A c \in ComplaintInputs, n \in Notes :
          LET f == complaints[c].filed_by_id
          IN (/\ c \in Ids(complaints)
              /\ get_user_warning_count(warnings, f) + 1 >= BlacklistThreshold
              /\ ReviewComplaint(1, c, "Rejected", n)) =>
                 /\ ret'.result = "True"
                 /\ get_user_warning_count(warnings', f)
                       = get_user_warning_count(warnings, f) + 1
                 /\ Cardinality({b \in Ids(blacklist') : blacklist'[b].user_id = f}) = 1
                 /\ ~active'[f]
                 /\ role'[f] = role[f]]_vars

\* C7: a Rejected resolution that brings the filer's warning count to
\* exactly 2 makes a VIP filer a Customer without blacklisting or
\* deactivating it, and leaves the role, active flag and blacklist status of
\* a filer that is not VIP unchanged; one that brings the count to exactly 1
\* leaves the filer's role, active flag and blacklist status unchanged.
C7_DemoteAtTwo ==
    [][\A c \in ComplaintInputs, n \in Notes :
          LET f == complaints[c].filed_by_id
              k == get_user_warning_count(warnings, f) + 1
          IN (c \in Ids(complaints) /\ ReviewComplaint(1, c, "Rejected", n)) =>
                 /\ k <= DemoteThreshold => get_user_warning_count(warnings', f) = k
                 /\ (k = DemoteThreshold /\ role[f] = "VIP") =>
                        /\ role'[f] = "Customer"
                        /\ ~UniqueViolation(blacklist', f)
                        /\ active'[f] = active[f]
                 /\ ((k = DemoteThreshold /\ role[f] # "VIP") \/ k = 1) =>
                        /\ role'[f] = role[f]
                        /\ active'[f] = active[f]
                        /\ blacklist' = blacklist]_vars

\* The registered VIP (account 2) after its second warning: a Customer,
\* still active and not blacklisted.
C7_Witness ==
    /\ ret.op = "review_complaint" /\ ret.arg = "Rejected" /\ ret.result = "True"
    /\ ret.target \in Ids(complaints)
    /\ complaints[ret.target].filed_by_id = 2
    /\ get_user_warning_count(warnings, 2) = DemoteThreshold
    /\ RegisteredRole[2] = "VIP" /\ role[2] = "Customer"
    /\ active[2] /\ ~is_user_blacklisted(2)

\* C8: resolve_complaint with decision Approved creates no Warning and no
\* Blacklist entry and changes no account's role or active flag, whatever
\* the filer's warning count; of the complaint only the status, the
\* decision, the notes and the review timestamp change.
C8_ApprovedHasNoEscalation ==
    [][\A c \in ComplaintInputs, n \in Notes :
          (c \in Ids(complaints) /\ ReviewComplaint(1, c, "Approved", n)) =>
              /\ warnings' = warnings
              /\ blacklist' = blacklist
              /\ role' = role
              /\ active' = active
              /\ balance' = balance
              /\ OtherColumnsKept(c)
              /\ complaints'[c].status = "Approved"
              /\ complaints'[c].manager_decision = "Approved"
              /\ complaints'[c].manager_notes = n
              /\ complaints'[c].reviewed
              /\ ret'.result = "True"]_vars

\* An approved complaint of a filer who already has two warnings.
C8_Witness ==
    /\ ret.op = "review_complaint" /\ ret.arg = "Approved" /\ ret.result = "True"
    /\ ret.target \in Ids(complaints)
    /\ complaints[ret.target].status = "Approved"
    /\ get_user_warning_count(warnings, complaints[ret.target].filed_by_id) = 2
    /\ ~is_user_blacklisted(complaints[ret.target].filed_by_id)

\* C9: resolve_complaint with an id that matches no complaint returns false
\* and leaves every complaint, warning, blacklist entry and account as it is.
C9_UnknownComplaint ==
    [][\A c \in ComplaintInputs, d \in Decisions, n \in Notes :
          (c \notin Ids(complaints) /\ ReviewComplaint(1, c, d, n)) =>
              /\ ret'.result = "False"
              /\ UNCHANGED <<complaints, warnings, blacklist, role, active,
                             balance>>]_vars

\* A review of an id beyond the complaints table while the table holds a
\* complaint that is still Pending.
C9_Witness ==
    /\ ret.op = "review_complaint" /\ ret.result = "False"
    /\ ret.target \notin Ids(complaints)
    /\ \E c \in Ids(complaints) : complaints[c].status = "Pending"

\* C10: once a complaint's status has left Pending, no later
\* resolve_complaint call changes its status, decision or notes or has an
\* escalation effect (a warning, a blacklist entry, a role or active change).
C10_ReviewedOnce ==
    [][\A c \in Ids(complaints) :
          complaints[c].status # "Pending" =>
              /\ complaints'[c].status = complaints[c].status
              /\ complaints'[c].manager_decision = complaints[c].manager_decision
              /\ complaints'[c].manager_notes = complaints[c].manager_notes
              /\ \A d \in Decisions, n \in Notes :
                    ReviewComplaint(1, c, d, n) =>
                        UNCHANGED <<warnings, blacklist, role, active>>]_vars

(***************************************************************************)
(* Properties of the VIP promotion rule (SpecOrders, SpecLoyalty).  The    *)
(* sums and counts are taken row by row over the first n orders.           *)
(***************************************************************************)
RECURSIVE SpentOn(_, _, _, _)
SpentOn(ords, u, S, n) ==
    IF n = 0 THEN 0
    ELSE SpentOn(ords, u, S, n - 1)
         + (IF ords[n].customer_id = u /\ ords[n].status \in S
            THEN ords[n].total_amount ELSE 0)

RECURSIVE CountOf(_, _, _, _)
CountOf(ords, u, S, n) ==
    IF n = 0 THEN 0
    ELSE CountOf(ords, u, S, n - 1)
         + (IF ords[n].customer_id = u /\ ords[n].status \in S THEN 1 ELSE 0)

\* C11: for a Customer whose Delivered orders sum to more than 100 the rule
\* returns true and sets the role to VIP; with a sum of exactly 100 and fewer
\* than 3 Delivered orders it returns false and the role stays Customer;
\* orders in any other status do not count toward the sum.
C11_SpendingPromotes ==
    [][\A u \in Users :
          (role[u] = "Customer" /\ EvaluateAndPromote(u)) =>
              LET n == Len(orders)
                  spent == SpentOn(orders, u, {"Delivered"}, n)
                  billed == SpentOn(orders, u, OrderStatuses, n)
                  delivered == CountOf(orders, u, {"Delivered"}, n)
              IN /\ spent > 100 =>
                       ret'.result = "True" /\ role'[u] = "VIP"
                 /\ (spent = 100 /\ delivered < 3) =>
                       ret'.result = "False" /\ role'[u] = "Customer"
                 /\ (billed > 100 /\ spent <= 100 /\ delivered < 3) =>
                       ret'.result = "False" /\ role'[u] = "Customer"]_vars

\* The rule has refused a Customer whose Delivered orders sum to exactly 100.
C11_Witness ==
    /\ ret.op = "calculate_vip_status" /\ ret.result = "False"
    /\ role[ret.user] = "Customer"
    /\ SpentOn(orders, ret.user, {"Delivered"}, Len(orders)) = 100

\* An Approved complaint is tied to one of u's Delivered orders.
HasApprovedComplaint(cmps, ords, u) ==
    \E c \in Ids(cmps) :
        /\ cmps[c].status = "Approved"
        /\ cmps[c].order_id \in Ids(ords)
        /\ ords[cmps[c].order_id].customer_id = u
        /\ ords[cmps[c].order_id].status = "Delivered"

C14_TrueIffVip ==
    [][\A u \in Users \cup {UnknownUser} :
          EvaluateAndPromote(u) =>
              /\ ret'.result = "True" <=> (u \in Users /\ role'[u] = "VIP")
              /\ (u \in Users /\ role[u] = "VIP") =>
                    ret'.result = "True" /\ role' = role
              /\ \A v \in Users \ {u} : role'[v] = role[v]
              /\ UNCHANGED <<balance, active, cart, orders, items, bids,
                             complaints, warnings, blacklist>>]_vars

\* The rule has returned true for the account that registered as VIP and
\* still is one.
C14_Witness ==
    /\ ret.op = "calculate_vip_status" /\ ret.result = "True"
    /\ ret.user \in Users
    /\ RegisteredRole[ret.user] = "VIP" /\ role[ret.user] = "VIP"

(***************************************************************************)
(* Properties of the order's status (SpecStatus).                          *)
(***************************************************************************)
\* The place of a status in the sequence of models.py; Cancelled is last.
StatusRank(s) ==
    CASE s = "Pending" -> 1
      [] s = "Preparing" -> 2
      [] s = "Ready" -> 3
      [] s = "Out for Delivery" -> 4
      [] s = "Delivered" -> 5
      [] OTHER -> 6

\* C15: over any sequence of update_order_status and assign_order calls an
\* order's status only moves forward along Pending, Preparing, Ready, Out for
\* Delivery, Delivered (never to an earlier status), except for a move to
\* Cancelled.
C15_StatusMovesForward ==
    [][\A o \in Ids(orders) :
          \/ orders'[o].status = "Cancelled"
          \/ StatusRank(orders'[o].status) >= StatusRank(orders[o].status)]_vars

\* C16: update_order_status changes an order's status only if the actor is
\* a manager, or a chef while the status is Pending or Preparing, or the
\* delivery person the order is assigned to; for every other actor the order
\* and all other state are unchanged.
C16_UpdateAuthorized ==
    [][LET u == ret'.user
           o == ret'.target
       IN (/\ ret'.op = "update_order_status"
           /\ o \in Ids(orders)
           /\ UpdateOrderStatus(u, o, ret'.arg)) =>
              LET allowed ==
                      \/ role[u] = "Manager"
                      \/ /\ role[u] = "Chef"
                         /\ orders[o].status \in {"Pending", "Preparing"}
                      \/ /\ role[u] = "DeliveryPerson"
                         /\ orders[o].delivery_person_id = u
              IN /\ orders'[o].status # orders[o].status => allowed
                 /\ ~allowed =>
                       UNCHANGED <<role, balance, active, cart, orders, items,
                                   bids, complaints, warnings, blacklist>>]_vars

\* A delivery person has been refused on an order assigned to someone else.
C16_Witness ==
    /\ ret.op = "update_order_status" /\ ret.result = "no permission"
    /\ ret.arg \in OrderStatuses
    /\ role[ret.user] = "DeliveryPerson"
    /\ ret.target \in Ids(orders)
    /\ orders[ret.target].delivery_person_id \notin {NoId, ret.user}

(***************************************************************************)
(* Uniqueness of bids (SpecDelivery).                                      *)
(***************************************************************************)
\* C20: in every reachable state there is at most one DeliveryBid for each
\* (order, delivery person) pair, also when the same delivery person bids
\* repeatedly on an order that has no assigned delivery person.
C20_OneBidPerPair ==
    \A o \in Ids(orders), d \in Users :
        Cardinality({b \in BidsOf(bids, o) :
                        bids[b].delivery_person_id = d}) <= 1

(***************************************************************************)
(* Properties of the AI customer service (SpecAnswer, SpecKB).             *)
(***************************************************************************)
\* The paragraphs of the file that contain at least half of the query words.
HalfMatched(content, q) ==
    LET ps == SplitParagraphs(content)
        w == QueryWords(q)
    IN {p \in 1..Len(ps) :
           Score(w, ps[p]) > 0 /\ 2 * Score(w, ps[p]) >= Len(w)}

\* Paragraph a of ps ranks before paragraph b: a higher score, or the same
\* score and an earlier place in the file.
RanksBefore(ps, w, a, b) ==
    \/ Score(w, ps[a]) > Score(w, ps[b])
    \/ Score(w, ps[a]) = Score(w, ps[b]) /\ a < b

\* The first of the paragraphs S in that ranking.
TopRanked(ps, w, S) ==
    CHOOSE p \in S : \A r \in S \ {p} : RanksBefore(ps, w, p, r)

\* C17 as stated: whenever some paragraph of the file contains at least 50%
\* of the query's significant tokens, the answer is exactly that paragraph's
\* text and nothing else, with source local.
C17_ParagraphVerbatim ==
    [][\A u \in {NoId, 3}, q \in Queries, ext \in LlmReplies :
          (q # NoQuery /\ corpus # NoFile /\ AiChat(u, q, ext)) =>
              \A p \in HalfMatched(corpus, q) :
                  /\ reply'.answer = SplitParagraphs(corpus)[p]
                  /\ reply'.source = "local"]_vars

\* C17 amended: whenever some paragraph contains at least 50% of the
\* query's significant tokens, the source is local and the answer starts with
\* the stripped text of the top-ranked paragraph (highest score, earliest in
\* the file on a tie); it is that text alone when no other paragraph
\* contains a token or the next-ranked one has fewer than 0.3 of the tokens,
\* and otherwise that text, a blank line and the stripped text of the
\* next-ranked paragraph.
C17_TopParagraphs ==
    [][\A u \in {NoId, 3}, q \in Queries, ext \in LlmReplies :
          (/\ q # NoQuery /\ corpus # NoFile
           /\ HalfMatched(corpus, q) # {}
           /\ AiChat(u, q, ext)) =>
              LET ps == SplitParagraphs(corpus)
                  w == QueryWords(q)
                  first == TopRanked(ps, w, DOMAIN ps)
                  others == {r \in DOMAIN ps \ {first} : Score(w, ps[r]) > 0}
                  second == TopRanked(ps, w, others)
              IN /\ reply'.source = "local"
                 /\ reply'.answer =
                       IF others = {} \/ 10 * Score(w, ps[second]) < 3 * Len(w)
                       THEN Strip(ps[first])
                       ELSE Strip(ps[first]) \o <<"\n", "\n">>
                            \o Strip(ps[second])]_vars

\* The answer to a question is two paragraphs, each of which contains at
\* least half of the question's tokens.
C17_Witness ==
    /\ ret.op = "ai_chat" /\ reply.source = "local"
    /\ LET q == ratings[reply.rating_id].query
           ps == SplitParagraphs(corpus)
       IN \E a, b \in HalfMatched(corpus, q) :
              /\ a # b
              /\ reply.answer = Strip(ps[a]) \o <<"\n", "\n">> \o Strip(ps[b])

\* C18: rating 0 on a response linked to a knowledge base entry sets the
\* entry's flagged to true; a rating v in 1..5 leaves flagged as it was and,
\* after the call, the entry's stored average and rating count include v
\* (they are the mean and the number of the entry's ratings above 0).
C18_RatingUpdatesEntry ==
    [][\A rid \in RatingIds, v \in RatingInputs :
          (/\ rid \in Ids(ratings) /\ v \in 0..5
           /\ ratings[rid].kb_entry_id \in Ids(kb)
           /\ RateAiResponse(rid, v)) =>
              LET e == ratings[rid].kb_entry_id
                  S == {r \in Ids(ratings') :
                           /\ ratings'[r].kb_entry_id = e
                           /\ ratings'[r].rating > 0}
                  total == SumOver(S, [r \in Ids(ratings') |->
                                          ratings'[r].rating])
              IN /\ v = 0 => kb'[e].flagged
                 /\ v \in 1..5 =>
                       /\ kb'[e].flagged = kb[e].flagged
                       /\ kb'[e].rating_count = Cardinality(S)
                       /\ kb'[e].rating * Cardinality(S) = AverageScale * total]_vars

\* C19: rate_ai_response with a value outside 0..5, or with a rating_id that
\* matches no rating record, returns false and changes no rating record and
\* no knowledge base entry (rating, count and flagged all unchanged).
C19_InvalidRatingRejected ==
    [][\A rid \in RatingIds, v \in RatingInputs :
          ((v \notin 0..5 \/ rid \notin Ids(ratings))
             /\ RateAiResponse(rid, v)) =>
              ret'.result = "False" /\ UNCHANGED <<ratings, kb>>]_vars

\* A rating of -1 has been refused for a response that is on record and is
\* linked to a knowledge base entry.
C19_Witness ==
    /\ ret.op = "rate_ai_response" /\ ret.result = "False"
    /\ ret.arg = "-1"
    /\ ret.target \in Ids(ratings)
    /\ ratings[ret.target].kb_entry_id \in Ids(kb)

\* C21: a bid is resolved exactly once: once its status has left Pending no
\* later operation changes it; a Rejected bid never becomes Accepted and an
\* Accepted bid never becomes Rejected.
C21_BidResolvedOnce ==
    [][\A b \in Ids(bids) :
          bids[b].status # "Pending" => bids'[b].status = bids[b].status]_vars

RowsAfter(table, n) == SubSeq(table, n + 1, Len(table))

\* C23: a successful place_order (account active, not blacklisted, cart not
\* empty, balance >= total) creates exactly one order with status Pending,
\* no delivery person and total_amount equal to the sum of price * quantity
\* over the cart, creates one line item per cart entry, decreases the balance
\* by exactly that total and then runs the VIP promotion rule for the
\* account; with an empty cart it creates nothing and leaves the balance.
C23_PlaceOrderEffects ==
    [][\A u \in Users :
          PlaceOrder(u) =>
              LET entries == {m \in Menu : cart[u][m] > 0}
                  total == Price(1) * cart[u][1] + Price(2) * cart[u][2]
                  oid == Len(orders) + 1
                  lines == RowsAfter(items', Len(items))
                  barred == \E b \in Ids(blacklist) : blacklist[b].user_id = u
                  promoted ==
                      /\ role[u] = "Customer"
                      /\ \/ SpentOn(orders', u, {"Delivered"}, Len(orders')) > 100
                         \/ /\ CountOf(orders', u, {"Delivered"}, Len(orders')) >= 3
                            /\ ~HasApprovedComplaint(complaints, orders', u)
              IN /\ (active[u] /\ ~barred /\ entries # {} /\ balance[u] >= total) =>
                       /\ RowsAfter(orders', Len(orders)) =
                             <<[customer_id |-> u, delivery_person_id |-> NoId,
                                status |-> "Pending", total_amount |-> total]>>
                       /\ SubSeq(orders', 1, Len(orders)) = orders
                       /\ SubSeq(items', 1, Len(items)) = items
                       /\ Len(lines) = Cardinality(entries)
                       /\ \A m \in entries :
                             \E i \in 1..Len(lines) :
                                 lines[i] = [order_id |-> oid, menu_item_id |-> m,
                                             quantity |-> cart[u][m],
                                             subtotal |-> Price(m) * cart[u][m]]
                       /\ balance' = [balance EXCEPT ![u] = balance[u] - total]
                       /\ role' = IF promoted THEN [role EXCEPT ![u] = "VIP"]
                                  ELSE role
                 /\ entries = {} =>
                       UNCHANGED <<orders, items, balance>>]_vars

\* An order of both dishes has been placed: two line items, 70 debited.
C23_Witness ==
    /\ ret.op = "place_order" /\ ret.result = "ok"
    /\ ret.target = Len(orders)
    /\ orders[ret.target].total_amount = 70
    /\ Cardinality({i \in Ids(items) : items[i].order_id = ret.target}) = 2
    /\ balance[ret.user] = 0

(***************************************************************************)
(* More properties of the order's status (SpecStatus).                     *)
(***************************************************************************)
\* C24: once an order's status is Delivered, no later update_order_status or
\* assign_order changes its status or its assigned delivery person.
C24_DeliveredIsFinal ==
    [][\A o \in Ids(orders) :
          orders[o].status = "Delivered" =>
              /\ orders'[o].status = "Delivered"
              /\ orders'[o].delivery_person_id = orders[o].delivery_person_id]_vars

\* C25: update_order_status accepts exactly the five values Pending,
\* Preparing, Ready, Out for Delivery and Delivered; any other value, such as
\* Cancelled or a missing one, leaves the order unchanged even for a manager,
\* so no order is ever in status Cancelled.
C25_FiveStatuses ==
    [][/\ LET u == ret'.user
              o == ret'.target
              s == ret'.arg
              five == {"Pending", "Preparing", "Ready", "Out for Delivery",
                       "Delivered"}
          IN (/\ ret'.op = "update_order_status"
              /\ o \in Ids(orders)
              /\ UpdateOrderStatus(u, o, s)) =>
                 /\ s \notin five => orders' = orders
                 /\ (s \in five /\ role[u] = "Manager") => orders'[o].status = s
                 /\ orders'[o].status \in {s, orders[o].status}
       /\ \A o \in Ids(orders') : orders'[o].status # "Cancelled"]_vars

\* The manager has asked for Cancelled on an existing order and was refused.
C25_Witness ==
    /\ ret.op = "update_order_status" /\ ret.result = "no permission"
    /\ ret.arg = "Cancelled"
    /\ role[ret.user] = "Manager"
    /\ ret.target \in Ids(orders)

(***************************************************************************)
(* Bids on an assigned order (SpecDelivery).                               *)
(***************************************************************************)
\* C26: delivery_bid on an order that already has a delivery person creates
\* no bid and changes no state; otherwise it creates one Pending bid of the
\* acting delivery person and changes nothing else; consequently the set of
\* bids of an order that has been assigned (here: that has an Accepted bid)
\* never grows.
C26_NoBidOnceAssigned ==
    [][/\ \A u \in {4, 5}, o \in Ids(orders) :
             DeliveryBid(u, o) =>
                 /\ UNCHANGED <<role, balance, active, cart, orders, items,
                                complaints, warnings, blacklist>>
                 /\ IF orders[o].delivery_person_id # NoId
                    THEN bids' = bids
                    ELSE bids' = Append(bids, [order_id |-> o,
                                               delivery_person_id |-> u,
                                               status |-> "Pending"])
       /\ \A o \in Ids(orders) :
             (\E b \in BidsOf(bids, o) : bids[b].status = "Accepted") =>
                 BidsOf(bids', o) = BidsOf(bids, o)]_vars

(***************************************************************************)
(* The blacklist (SpecEscalation).                                         *)
(***************************************************************************)
Blacklisted(table) == {table[b].user_id : b \in Ids(table)}

\* C27: Blacklist entries are created only by the escalation rule and never
\* removed: every account with a Blacklist entry has at least 3 warnings, and
\* an account that has an entry in one state has it in every later state.
C27_BlacklistKept ==
    [][/\ \A u \in Blacklisted(blacklist') :
             Cardinality({w \in Ids(warnings') : warnings'[w].user_id = u}) >= 3
       /\ Blacklisted(blacklist) \subseteq Blacklisted(blacklist')
       /\ blacklist' # blacklist =>
             /\ ret'.op = "review_complaint"
             /\ ret'.arg = "Rejected"]_vars

\* The manager has rehired an account that has a Blacklist entry.
C27_Witness ==
    /\ ret.op = "hire_fire" /\ ret.arg = "hire"
    /\ ret.target \in Blacklisted(blacklist)
    /\ active[ret.target]

(***************************************************************************)
(* Roles (SpecRoles).                                                      *)
(***************************************************************************)
\* C28: over place_order, resolve_complaint, status-update, assignment and
\* HR operations a role changes only from Customer to VIP, by the promotion
\* rule at the account's own checkout, or from VIP to Customer, by the
\* escalation rule on the account's second warning; a Visitor, Chef,
\* DeliveryPerson or Manager never changes role.
C28_RoleChanges ==
    [][\A u \in Users :
          /\ role[u] \in {"Visitor", "Chef", "DeliveryPerson", "Manager"} =>
                role'[u] = role[u]
          /\ role'[u] # role[u] =>
                \/ /\ role[u] = "Customer" /\ role'[u] = "VIP"
                   /\ ret'.op = "place_order" /\ ret'.user = u
                   /\ ret'.result = "ok"
                \/ /\ role[u] = "VIP" /\ role'[u] = "Customer"
                   /\ ret'.op = "review_complaint" /\ ret'.arg = "Rejected"
                   /\ Cardinality({w \in Ids(warnings') :
                                      warnings'[w].user_id = u}) = 2
                   /\ Len(warnings') = Len(warnings) + 1]_vars

\* The customer was promoted at the checkout that followed a delivered
\* order and then demoted by a second warning; the visitor, who has two
\* warnings as well, is still a visitor.
C28_Witness ==
    /\ ret.op = "review_complaint"
    /\ role[3] = "Customer"
    /\ \E o \in Ids(orders) : orders[o].customer_id = 3 /\ orders[o].status = "Delivered"
    /\ Cardinality({w \in Ids(warnings) : warnings[w].user_id = 3}) = 2
    /\ Cardinality({w \in Ids(warnings) : warnings[w].user_id = 7}) = 2
    /\ role[7] = "Visitor"

\* C29: after rate(rating_id, 0) on a record linked to a knowledge base
\* entry, the entry's rating_count is the number of the entry's rating
\* records above 0 and its rating is their mean, over the values as they
\* stand after the call, also when a positive record is re-rated to 0 and
\* when no positive rating remains (the count is then 0).
C29_ZeroRatingRecomputes ==
    [][LET rid == ret'.target
       IN (/\ ret'.op = "rate_ai_response" /\ ret'.arg = "0"
           /\ rid \in Ids(ratings)
           /\ ratings[rid].kb_entry_id \in Ids(kb)
           /\ RateAiResponse(rid, 0)) =>
              LET e == ratings[rid].kb_entry_id
                  S == {r \in Ids(ratings') :
                           /\ ratings'[r].kb_entry_id = e
                           /\ ratings'[r].rating > 0}
                  total == SumOver(S, [r \in Ids(ratings') |->
                                          ratings'[r].rating])
              IN /\ kb'[e].rating_count = Cardinality(S)
                 /\ S # {} => kb'[e].rating * Cardinality(S) = AverageScale * total]_vars

\* C30: in the paragraph stage, with n the number of query words used for
\* scoring, the paragraph returned first is the one with the highest score,
\* the earliest in the file among equal scores; the stage returns it only if
\* its score is at least 0.5 * n, and appends the second-ranked paragraph
\* after a blank line exactly when there is one and its score is at least
\* 0.3 * n.  What the stage returns is the answer, with source local.
C30_ParagraphStage ==
    [][\A u \in {NoId, 3}, q \in Queries, ext \in LlmReplies :
          (q # NoQuery /\ corpus # NoFile /\ AiChat(u, q, ext)) =>
              LET ps == SplitParagraphs(corpus)
                  w == QueryWords(q)
                  n == Len(w)
                  stage == ParagraphStage(SortByScore(Matches(ps, w)), n)
                  scored == {p \in DOMAIN ps : Score(w, ps[p]) > 0}
                  first == TopRanked(ps, w, scored)
                  rest == scored \ {first}
                  second == TopRanked(ps, w, rest)
              IN IF scored = {} \/ 2 * Score(w, ps[first]) < n
                 THEN stage = <<>>
                 ELSE /\ stage =
                           IF rest # {} /\ 10 * Score(w, ps[second]) >= 3 * n
                           THEN Strip(ps[first]) \o <<"\n", "\n">>
                                \o Strip(ps[second])
                           ELSE Strip(ps[first])
                      /\ reply'.answer = stage
                      /\ reply'.source = "local"]_vars

\* A question was asked of which some paragraph contains a word, but none
\* contains half of them: the paragraph stage gave no answer.
C30_Witness ==
    /\ ret.op = "ai_chat" /\ corpus # NoFile
    /\ reply.rating_id \in Ids(ratings)
    /\ LET q == ratings[reply.rating_id].query
           ps == SplitParagraphs(corpus)
           w == QueryWords(q)
       IN /\ \E p \in DOMAIN ps : Score(w, ps[p]) > 0
          /\ \A p \in DOMAIN ps : 2 * Score(w, ps[p]) < Len(w)
          /\ reply.source # "local"

(***************************************************************************)
(* The external completion call (SpecExternal).                            *)
(***************************************************************************)
\* C31: when the local lookup finds no match and an API key is configured,
\* answer() makes exactly one external call and, whatever its outcome,
\* returns a string answer with source llm, creates the AIResponseRating
\* record and creates no KnowledgeBaseEntry.
C31_ExternalFailureContained ==
    [][\A u \in {NoId, 3}, q \in ExternalQueries, ext \in ExternalOutcomes :
          (/\ q # NoQuery /\ api_key
           /\ search_local_knowledge_base(corpus, q) = <<>>
           /\ AiChat(u, q, ext)) =>
              /\ posted' = 1
              /\ ret'.result = "ok"
              /\ reply'.answer # <<>>
              /\ reply'.source = "llm"
              /\ ratings' = Append(ratings, ratings'[Len(ratings')])
              /\ reply'.rating_id = Len(ratings')
              /\ ratings'[Len(ratings')].response = reply'.answer
              /\ ratings'[Len(ratings')].source = "llm"
              /\ kb' = kb]_vars

(***************************************************************************)
(* Balances (SpecOrders).                                                  *)
(***************************************************************************)
\* C32: in every state reached by deposits of a positive amount and by
\* place_order on carts of positive prices and quantities, every account's
\* balance is greater than or equal to 0.
C32_BalanceNeverNegative == \A u \in Users : balance[u] >= 0

\* An account that has spent its whole balance on an order was refused the
\* next one.
C32_Witness ==
    /\ ret.op = "place_order" /\ ret.result = "insufficient balance"
    /\ balance[ret.user] = 0
    /\ \E o \in Ids(orders) : orders[o].customer_id = ret.user

(***************************************************************************)
(* More properties of the escalation rule (SpecEscalation).                *)
(***************************************************************************)
\* C33: in every reachable state at most one Warning references any given
\* complaint, so one complaint raises its filer's warning count by at most 1
\* however often the manager submits a decision for it.
C33_OneWarningPerComplaint ==
    \A w1, w2 \in Ids(warnings) :
        warnings[w1].complaint_id = warnings[w2].complaint_id => w1 = w2

(***************************************************************************)
(* Warnings and the VIP role (SpecRoles).                                  *)
(***************************************************************************)
\* C34: demotion is sticky: no place_order makes an account VIP while it has
\* 2 or more warnings; in every reachable state no account that is not
\* blacklisted and has 2 or more warnings has role VIP.
C34_DemotionSticky ==
    \A u \in Users :
        (/\ ~is_user_blacklisted(u)
         /\ Cardinality({w \in Ids(warnings) : warnings[w].user_id = u}) >= 2)
            => role[u] # "VIP"

\* C35: in every state reached by resolve_complaint and hire_fire operations
\* every account that has a Blacklist entry has its active flag false.
C35_BlacklistedInactive ==
    \A u \in Users : is_user_blacklisted(u) => ~active[u]

(***************************************************************************)
(* Assignment and accepted bids (SpecDelivery).                            *)
(***************************************************************************)
\* C36: in every reachable state an order has an assigned delivery person
\* if and only if exactly one bid on it is Accepted, and that bid belongs to
\* the assigned delivery person; assign_order never assigns a person who has
\* no bid on the order.
C36_AssignedIffAccepted ==
    \A o \in Ids(orders) :
        /\ orders[o].delivery_person_id # NoId
              <=> Cardinality(AcceptedBids(bids, o)) = 1
        /\ \A b \in AcceptedBids(bids, o) :
              bids[b].delivery_person_id = orders[o].delivery_person_id

(***************************************************************************)
(* Checkouts at the same time (SpecConcurrent).                            *)
(***************************************************************************)
\* C37: when two place_order requests of one account run at the same time,
\* the balance they leave is the balance deposited less the totals of all
\* the orders created, and it is never negative.
C37_ConcurrentCheckout ==
    Idle =>
        /\ balance[3] = 70 * deposits
                        - SumOver(Ids(orders),
                                  [o \in Ids(orders) |-> orders[o].total_amount])
        /\ balance[3] >= 0

====
